---- MODULE Spec2Model ----
(***************************************************************************)
(* react-mosaic-ui: the mosaic tree, its update algebra (updateTree and    *)
(* the update constructors) and the drag relocation algorithm              *)
(* (createDragToUpdates), modelled from src/shared/lib/mosaic-updates.ts   *)
(* and src/shared/lib/mosaic-utilities.ts.                                 *)
(*                                                                         *)
(* A node is a record: a Leaf carries the window key, a MosaicParent the   *)
(* direction, the two children and the (optional) splitPercentage; Null is *)
(* the JavaScript null (the empty layout and the placeholder written by    *)
(* createHideUpdate).                                                      *)
(***************************************************************************)
EXTENDS Integers, Sequences, FiniteSets, TLC

VARIABLES root, sourcePath, destinationPath, position, updates, threw, result, pc, call,
          events, resize, pending, monitor

vars == <<root, sourcePath, destinationPath, position, updates, threw, result, pc, call,
          events, resize, pending, monitor>>

\* the arguments of the call an action makes, when it is not a drop
NoCall == [op |-> "none"]

\* the state of the components: the callbacks emitted so far, the resize drag
\* of a Split, the window split that awaits createNode, and what the drag
\* monitor and useDragSource's prevIsDragging ref say
componentVars == <<events, resize, pending, monitor>>

NoResize == [state |-> "idle"]

NoPending == [state |-> "none"]

NoDrag == [isDragging |-> FALSE, prevIsDragging |-> FALSE]

\* no component has emitted or started anything
NoComponent ==
  /\ events = <<>>
  /\ resize = NoResize
  /\ pending = NoPending
  /\ monitor = NoDrag

(***************************************************************************)
(* Bounds of the model.                                                    *)
(***************************************************************************)
MaxLeaves == 4
MaxPathLen == 3
MaxUpdLeaves == 2
MaxUpdPathLen == 1
MaxBatch == 2

\* longest leaf list given to createBalancedTreeFromLeaves
MaxList == 6

LeafIds == <<"a", "b", "c", "d", "e">>

(***************************************************************************)
(* Types (src/shared/types/index.ts).                                      *)
(***************************************************************************)
MosaicDirection == {"row", "column"}

MosaicBranch == {"first", "second"}

MosaicDropTargetPosition == {"TOP", "BOTTOM", "LEFT", "RIGHT"}

Null == [kind |-> "null"]

Leaf(id) == [kind |-> "leaf", id |-> id]

MosaicParent(direction, first, second, splitPercentage) ==
  [kind |-> "split", direction |-> direction, first |-> first,
   second |-> second, splitPercentage |-> splitPercentage]

RECURSIVE PathsOfLen(_)
PathsOfLen(n) ==
  IF n = 0 THEN {<<>>}
  ELSE {<<b>> \o p : b \in MosaicBranch, p \in PathsOfLen(n - 1)}

MosaicPath == UNION {PathsOfLen(n) : n \in 0..MaxPathLen}

(***************************************************************************)
(* Tree primitives (mosaic-utilities).                                     *)
(***************************************************************************)
isParent(node) == node.kind = "split"

Child(node, branch) == IF branch = "first" THEN node.first ELSE node.second

RECURSIVE getLeaves(_)
getLeaves(node) ==
  IF node = Null THEN <<>>
  ELSE IF isParent(node) THEN getLeaves(node.first) \o getLeaves(node.second)
  ELSE <<node.id>>

\* a lookup that returns the node it stopped at instead of null
RECURSIVE getNodeAtPath_ReturnsWhereItStopped(_, _)
getNodeAtPath_ReturnsWhereItStopped(node, path) ==
  IF Len(path) = 0 THEN node
  ELSE IF ~isParent(node) THEN node
  ELSE getNodeAtPath_ReturnsWhereItStopped(Child(node, Head(path)), Tail(path))

RECURSIVE getNodeAtPath(_, _)
getNodeAtPath(node, path) ==
  IF Len(path) = 0 THEN node
  ELSE IF ~isParent(node) THEN Null
  ELSE getNodeAtPath(Child(node, Head(path)), Tail(path))

\* The result of a call that may throw: either the value or the Error.
Returned(value) == [threw |-> FALSE, value |-> value]

Thrown(message) == [threw |-> TRUE, message |-> message]

getAndAssertNodeAtPathExists(node, path) ==
  LET found == getNodeAtPath(node, path)
  IN  IF found = Null THEN Thrown("Node at path not found") ELSE Returned(found)

getOtherBranch(branch) == IF branch = "first" THEN "second" ELSE "first"

(***************************************************************************)
(* Update algebra (mosaic-updates).  An update is [path, spec]; a spec is  *)
(* either {$set: node} or a partial patch with any of the optional keys    *)
(* splitPercentage, direction, first, second.                              *)
(***************************************************************************)
SetSpec(node) == [kind |-> "set", set |-> node]

Update(path, spec) == [path |-> path, spec |-> spec]

HasSet(spec) == "set" \in DOMAIN spec

Has(spec, key) == key \in DOMAIN spec

\* an assignment that rebuilds a Split with the default splitPercentage
Assign_ResetsPercentage(node, key, value) ==
  [k \in DOMAIN node \cup {key} |->
     IF k = key THEN value
     ELSE IF k = "splitPercentage" THEN 50
     ELSE node[k]]

\* node[key] = value on an object that may or may not have the key yet
Assign(node, key, value) ==
  [k \in DOMAIN node \cup {key} |-> IF k = key THEN value ELSE node[k]]

\* an interpreter that overwrites the Leaf a $set path runs into
RECURSIVE applyUpdateAtPath_OverwritesLeaf(_, _, _)
applyUpdateAtPath_OverwritesLeaf(node, path, spec) ==
  IF Len(path) = 0 THEN
    IF HasSet(spec) THEN node
    ELSE IF isParent(node) THEN
      LET n1 == IF Has(spec, "splitPercentage")
                THEN Assign(node, "splitPercentage", spec.splitPercentage.set)
                ELSE node
          n2 == IF Has(spec, "direction")
                THEN Assign(n1, "direction", spec.direction.set)
                ELSE n1
          n3 == IF Has(spec, "first")
                THEN Assign(n2, "first",
                            applyUpdateAtPath_OverwritesLeaf(n2.first, <<>>, spec.first))
                ELSE n2
          n4 == IF Has(spec, "second")
                THEN Assign(n3, "second",
                            applyUpdateAtPath_OverwritesLeaf(n3.second, <<>>, spec.second))
                ELSE n3
      IN  n4
    ELSE node
  ELSE IF ~isParent(node) THEN (IF HasSet(spec) /\ node # Null THEN spec.set ELSE node)
  ELSE
    LET branch == Head(path)
        rest == Tail(path)
    IN  IF Len(rest) = 0 /\ HasSet(spec)
        THEN Assign(node, branch, spec.set)
        ELSE Assign(node, branch,
                    applyUpdateAtPath_OverwritesLeaf(Child(node, branch), rest, spec))

\* an interpreter whose $set goes one level further down the same branch
\* when the branch already holds a Split
RECURSIVE applyUpdateAtPath_SetOneLevelDown(_, _, _)
applyUpdateAtPath_SetOneLevelDown(node, path, spec) ==
  IF Len(path) = 0 THEN
    IF HasSet(spec) THEN node
    ELSE IF isParent(node) THEN
      LET n1 == IF Has(spec, "splitPercentage")
                THEN Assign(node, "splitPercentage", spec.splitPercentage.set)
                ELSE node
          n2 == IF Has(spec, "direction")
                THEN Assign(n1, "direction", spec.direction.set)
                ELSE n1
          n3 == IF Has(spec, "first")
                THEN Assign(n2, "first",
                            applyUpdateAtPath_SetOneLevelDown(n2.first, <<>>, spec.first))
                ELSE n2
          n4 == IF Has(spec, "second")
                THEN Assign(n3, "second",
                            applyUpdateAtPath_SetOneLevelDown(n3.second, <<>>, spec.second))
                ELSE n3
      IN  n4
    ELSE node
  ELSE IF ~isParent(node) THEN node
  ELSE
    LET branch == Head(path)
        rest == Tail(path)
    IN  IF Len(rest) = 0 /\ HasSet(spec)
        THEN IF isParent(Child(node, branch))
             THEN Assign(node, branch, Assign(Child(node, branch), branch, spec.set))
             ELSE Assign(node, branch, spec.set)
        ELSE Assign(node, branch,
                    applyUpdateAtPath_SetOneLevelDown(Child(node, branch), rest, spec))

RECURSIVE applyUpdateAtPath(_, _, _)
applyUpdateAtPath(node, path, spec) ==
  IF Len(path) = 0 THEN
    IF HasSet(spec) THEN node
    ELSE IF isParent(node) THEN
      LET n1 == IF Has(spec, "splitPercentage")
                THEN Assign(node, "splitPercentage", spec.splitPercentage.set)
                ELSE node
          n2 == IF Has(spec, "direction")
                THEN Assign(n1, "direction", spec.direction.set)
                ELSE n1
          n3 == IF Has(spec, "first")
                THEN Assign(n2, "first", applyUpdateAtPath(n2.first, <<>>, spec.first))
                ELSE n2
          n4 == IF Has(spec, "second")
                THEN Assign(n3, "second", applyUpdateAtPath(n3.second, <<>>, spec.second))
                ELSE n3
      IN  n4
    ELSE node
  ELSE IF ~isParent(node) THEN node
  ELSE
    LET branch == Head(path)
        rest == Tail(path)
    IN  IF Len(rest) = 0 /\ HasSet(spec)
        THEN Assign(node, branch, spec.set)
        ELSE Assign(node, branch, applyUpdateAtPath(Child(node, branch), rest, spec))

\* a loop body without the special case of the root-level $set
ApplyOne_NoRootSet(current, update) ==
  applyUpdateAtPath(current, update.path, update.spec)

\* one iteration of the for loop of updateTree
ApplyOne(current, update) ==
  IF Len(update.path) = 0 /\ HasSet(update.spec)
  THEN update.spec.set
  ELSE applyUpdateAtPath(current, update.path, update.spec)

\* a loop that applies every update to the base tree instead of the current one
ApplyLoop_EachOnBase(current, us) ==
  IF Len(us) = 0 THEN current ELSE ApplyOne(current, us[Len(us)])

\* the for loop of updateTree, from `current` over the batch `us`
RECURSIVE ApplyLoop(_, _)
ApplyLoop(current, us) ==
  IF Len(us) = 0 THEN current
  ELSE ApplyLoop(ApplyOne(current, Head(us)), Tail(us))

updateTree(tree, us) ==
  IF tree = Null THEN Null ELSE ApplyLoop(tree, us)

\* path[index] of JavaScript, 0-based; undefined past the end
At(path, index) == IF index + 1 \in 1..Len(path) THEN path[index + 1] ELSE "undefined"

\* path.slice(from)
SliceFrom(path, from) == SubSeq(path, from + 1, Len(path))

\* path.slice(0, -1)
DropLast(path) == SubSeq(path, 1, Len(path) - 1)

\* a removal that promotes the removed node instead of its sibling
createRemoveUpdate_KeepsRemoved(tree, path) ==
  IF tree = Null \/ Len(path) = 0 THEN Thrown("Cannot remove root node")
  ELSE
    LET parentPath == DropLast(path)
        branch == path[Len(path)]
        parent == getAndAssertNodeAtPathExists(tree, parentPath)
    IN  IF parent.threw THEN parent
        ELSE IF ~isParent(parent.value) THEN Thrown("Parent is not a parent node")
        ELSE Returned(Update(parentPath, SetSpec(Child(parent.value, branch))))

\* a removal that hides the root instead of refusing the empty path
createRemoveUpdate_AcceptsRoot(tree, path) ==
  IF tree = Null THEN Thrown("Cannot remove root node")
  ELSE IF Len(path) = 0 THEN Returned(Update(<<>>, SetSpec(Null)))
  ELSE
    LET parentPath == DropLast(path)
        branch == path[Len(path)]
        siblingBranch == getOtherBranch(branch)
        parent == getAndAssertNodeAtPathExists(tree, parentPath)
    IN  IF parent.threw THEN parent
        ELSE IF ~isParent(parent.value) THEN Thrown("Parent is not a parent node")
        ELSE Returned(Update(parentPath, SetSpec(Child(parent.value, siblingBranch))))

\* a removal that writes the sibling over the removed node, not the parent
createRemoveUpdate_AtRemovedPath(tree, path) ==
  IF tree = Null \/ Len(path) = 0 THEN Thrown("Cannot remove root node")
  ELSE
    LET parentPath == DropLast(path)
        branch == path[Len(path)]
        siblingBranch == getOtherBranch(branch)
        parent == getAndAssertNodeAtPathExists(tree, parentPath)
    IN  IF parent.threw THEN parent
        ELSE IF ~isParent(parent.value) THEN Thrown("Parent is not a parent node")
        ELSE Returned(Update(path, SetSpec(Child(parent.value, siblingBranch))))

createRemoveUpdate(tree, path) ==
  IF tree = Null \/ Len(path) = 0 THEN Thrown("Cannot remove root node")
  ELSE
    LET parentPath == DropLast(path)
        branch == path[Len(path)]
        siblingBranch == getOtherBranch(branch)
        parent == getAndAssertNodeAtPathExists(tree, parentPath)
    IN  IF parent.threw THEN parent
        ELSE IF ~isParent(parent.value) THEN Thrown("Parent is not a parent node")
        ELSE Returned(Update(parentPath, SetSpec(Child(parent.value, siblingBranch))))

createHideUpdate(path) == Update(path, SetSpec(Null))

createReplaceUpdate(path, node) == Update(path, SetSpec(node))

(***************************************************************************)
(* Drag relocation (createDragToUpdates).                                  *)
(***************************************************************************)
\* prefix.every((branch, index) => other[index] === branch)
EveryMatches(prefix, other) == \A i \in 1..Len(prefix) : At(other, i - 1) = prefix[i]

RECURSIVE JoinQuoted(_)
JoinQuoted(path) ==
  IF Len(path) = 0 THEN ""
  ELSE IF Len(path) = 1 THEN "'" \o path[1] \o "'"
  ELSE "'" \o path[1] \o "'," \o JoinQuoted(Tail(path))

JSONstringify(path) == "[" \o JoinQuoted(path) \o "]"

\* a createDragToUpdates without the self-drop check
IsSelfDrop_Never(srcPath, dstPath) == FALSE

IsSelfDrop(srcPath, dstPath) == JSONstringify(srcPath) = JSONstringify(dstPath)

SourceGoesFirst(pos) == pos = "LEFT" \/ pos = "TOP"

JointDirection(pos) == IF pos = "LEFT" \/ pos = "RIGHT" THEN "row" ELSE "column"

\* a joint Split that ignores the side for the order of its children
NewSplitNode_SourceAlwaysFirst(sourceNode, otherNode, pos) ==
  MosaicParent(JointDirection(pos), sourceNode, otherNode, 50)

\* the object literals newSplitNode and adjustedSplitNode
NewSplitNode(sourceNode, otherNode, pos) ==
  MosaicParent(JointDirection(pos),
               IF SourceGoesFirst(pos) THEN sourceNode ELSE otherNode,
               IF SourceGoesFirst(pos) THEN otherNode ELSE sourceNode,
               50)

IsDestinationParentOfSource(srcPath, dstPath) ==
  /\ Len(srcPath) > Len(dstPath)
  /\ EveryMatches(dstPath, srcPath)

\* an ancestor case that joins the source with the unchanged destination
AncestorCaseUpdates_SourceNotRemoved(sourceNode, destinationNode, srcPath, dstPath, pos) ==
  Returned(<<Update(dstPath, SetSpec(NewSplitNode(sourceNode, destinationNode, pos)))>>)

\* the special case: the destination contains the source
AncestorCaseUpdates(sourceNode, destinationNode, srcPath, dstPath, pos) ==
  LET relativeSourcePath == SliceFrom(srcPath, Len(dstPath))
      innerRemove == createRemoveUpdate(destinationNode, relativeSourcePath)
      updatedDestination == updateTree(destinationNode, <<innerRemove.value>>)
      adjustedSplitNode == NewSplitNode(sourceNode, updatedDestination, pos)
  IN  IF innerRemove.threw THEN innerRemove
      ELSE IF updatedDestination = Null THEN Returned(<<>>)
      ELSE Returned(<<Update(dstPath, SetSpec(adjustedSplitNode))>>)

\* a standard case without the sibling rebase
AdjustedDestinationPath_NoSiblingCase(srcPath, dstPath) ==
  LET sourceParentPath == DropLast(srcPath)
      isSourceParentInDestPath ==
        /\ Len(sourceParentPath) > 0
        /\ Len(sourceParentPath) < Len(dstPath)
        /\ EveryMatches(sourceParentPath, dstPath)
      sourceBranch == At(srcPath, Len(sourceParentPath))
      destBranchAtSameLevel == At(dstPath, Len(sourceParentPath))
  IN  IF isSourceParentInDestPath /\ sourceBranch = destBranchAtSameLevel
      THEN sourceParentPath \o SliceFrom(dstPath, Len(sourceParentPath) + 1)
      ELSE dstPath

\* a sibling test that compares the depths of the two parents only
AdjustedDestinationPath_SameDepthSiblings(srcPath, dstPath) ==
  LET sourceParentPath == DropLast(srcPath)
      destParentPath == DropLast(dstPath)
      areSiblings == Len(sourceParentPath) = Len(destParentPath)
      isSourceParentInDestPath ==
        /\ Len(sourceParentPath) > 0
        /\ Len(sourceParentPath) < Len(dstPath)
        /\ EveryMatches(sourceParentPath, dstPath)
      sourceBranch == At(srcPath, Len(sourceParentPath))
      destBranchAtSameLevel == At(dstPath, Len(sourceParentPath))
  IN  IF areSiblings THEN sourceParentPath
      ELSE IF isSourceParentInDestPath /\ sourceBranch = destBranchAtSameLevel
      THEN sourceParentPath \o SliceFrom(dstPath, Len(sourceParentPath) + 1)
      ELSE dstPath

\* the path of the final $set of the standard case
AdjustedDestinationPath(srcPath, dstPath) ==
  LET sourceParentPath == DropLast(srcPath)
      destParentPath == DropLast(dstPath)
      areSiblings ==
        /\ Len(sourceParentPath) = Len(destParentPath)
        /\ EveryMatches(sourceParentPath, destParentPath)
      isSourceParentInDestPath ==
        /\ Len(sourceParentPath) > 0
        /\ Len(sourceParentPath) < Len(dstPath)
        /\ EveryMatches(sourceParentPath, dstPath)
      sourceBranch == At(srcPath, Len(sourceParentPath))
      destBranchAtSameLevel == At(dstPath, Len(sourceParentPath))
  IN  IF areSiblings THEN sourceParentPath
      ELSE IF isSourceParentInDestPath /\ sourceBranch = destBranchAtSameLevel
      THEN sourceParentPath \o SliceFrom(dstPath, Len(sourceParentPath) + 1)
      ELSE dstPath

\* the standard case: remove the source, then set the split at the destination
StandardCaseUpdates(tree, sourceNode, destinationNode, srcPath, dstPath, pos) ==
  LET removeSource == createRemoveUpdate(tree, srcPath)
      newSplitNode == NewSplitNode(sourceNode, destinationNode, pos)
      last == Update(AdjustedDestinationPath(srcPath, dstPath), SetSpec(newSplitNode))
  IN  IF Len(srcPath) > 0 THEN
        IF removeSource.threw THEN removeSource
        ELSE Returned(<<removeSource.value, last>>)
      ELSE Returned(<<last>>)

createDragToUpdates(tree, srcPath, dstPath, pos) ==
  LET sourceNode == getNodeAtPath(tree, srcPath)
      destinationNode == getNodeAtPath(tree, dstPath)
  IN  IF sourceNode = Null THEN Returned(<<>>)
      ELSE IF destinationNode = Null THEN Returned(<<>>)
      ELSE IF IsSelfDrop(srcPath, dstPath) THEN Returned(<<>>)
      ELSE IF IsDestinationParentOfSource(srcPath, dstPath)
      THEN AncestorCaseUpdates(sourceNode, destinationNode, srcPath, dstPath, pos)
      ELSE StandardCaseUpdates(tree, sourceNode, destinationNode, srcPath, dstPath, pos)

(***************************************************************************)
(* The trees the drag specification starts from: every tree with at most   *)
(* MaxLeaves pairwise distinct leaves.                                     *)
(***************************************************************************)
InitialPercentages == {40}

RECURSIVE TreesOver(_)
TreesOver(ids) ==
  IF Len(ids) = 1 THEN {Leaf(ids[1])}
  ELSE UNION {
         {MosaicParent(d, f, s, p) :
            d \in MosaicDirection, p \in InitialPercentages,
            f \in TreesOver(SubSeq(ids, 1, k)),
            s \in TreesOver(SubSeq(ids, k + 1, Len(ids)))} :
         k \in 1..(Len(ids) - 1)}

TreesUpTo(n) == UNION {TreesOver(SubSeq(LeafIds, 1, m)) : m \in 1..n}

(***************************************************************************)
(* Drag specification: the drop handler of MosaicDropTarget computes the   *)
(* batch with createDragToUpdates and applies it with updateTree.          *)
(***************************************************************************)
InitDrag ==
  /\ root \in TreesUpTo(MaxLeaves)
  /\ sourcePath = <<>>
  /\ destinationPath = <<>>
  /\ position = "LEFT"
  /\ updates = <<>>
  /\ threw = FALSE
  /\ result = Null
  /\ pc = "idle"
  /\ call = NoCall
  /\ NoComponent

Drop ==
  /\ pc = "idle"
  /\ root # Null
  /\ \E srcPath \in MosaicPath, dstPath \in MosaicPath, pos \in MosaicDropTargetPosition :
       LET batch == createDragToUpdates(root, srcPath, dstPath, pos)
       IN  /\ threw' = batch.threw
           /\ updates' = IF batch.threw THEN <<>> ELSE batch.value
           /\ result' = IF batch.threw THEN root ELSE updateTree(root, batch.value)
           /\ sourcePath' = srcPath
           /\ destinationPath' = dstPath
           /\ position' = pos
  /\ pc' = "dropped"
  /\ UNCHANGED <<root, call>>
  /\ UNCHANGED componentVars

NextDrag == Drop

SpecDrag == InitDrag /\ [][NextDrag]_vars

(***************************************************************************)
(* Vocabulary of the properties, stated on the tree itself and not through *)
(* the update interpreter.                                                 *)
(***************************************************************************)
IsPrefix(p, q) == Len(p) <= Len(q) /\ SubSeq(q, 1, Len(p)) = p

IsStrictPrefix(p, q) == Len(p) < Len(q) /\ SubSeq(q, 1, Len(p)) = p

OtherSide(branch) == CHOOSE b \in MosaicBranch : b # branch

\* the tree with the subtree at path replaced by node (the tree itself when
\* the path does not resolve)
RECURSIVE ReplaceAt(_, _, _)
ReplaceAt(tree, path, node) ==
  IF path = <<>> THEN node
  ELSE IF tree.kind # "split" THEN tree
  ELSE [tree EXCEPT ![Head(path)] = ReplaceAt(tree[Head(path)], Tail(path), node)]

\* the tree with the Split above path collapsed to the other child
RemoveAt(tree, path) ==
  LET parentPath == SubSeq(path, 1, Len(path) - 1)
      siblingPath == parentPath \o <<OtherSide(path[Len(path)])>>
  IN  ReplaceAt(tree, parentPath, getNodeAtPath(tree, siblingPath))

\* every path that resolves to a node of the tree
RECURSIVE PathsIn(_)
PathsIn(tree) ==
  IF tree.kind = "split"
  THEN {<<>>} \cup {<<"first">> \o q : q \in PathsIn(tree.first)}
              \cup {<<"second">> \o q : q \in PathsIn(tree.second)}
  ELSE IF tree.kind = "leaf" THEN {<<>>} ELSE {}

Range(seq) == {seq[i] : i \in 1..Len(seq)}

\* every element of `before` occurs exactly once in `after`, and nothing else
ExactlyOnceEach(after, before) ==
  /\ Len(after) = Len(before)
  /\ Range(after) = Range(before)
  /\ Cardinality(Range(after)) = Len(after)

\* the joint Split the drop asks for: source on the requested side
ExpectedJoint(sourceNode, otherNode, pos) ==
  CASE pos = "LEFT" -> MosaicParent("row", sourceNode, otherNode, 50)
    [] pos = "RIGHT" -> MosaicParent("row", otherNode, sourceNode, 50)
    [] pos = "TOP" -> MosaicParent("column", sourceNode, otherNode, 50)
    [] pos = "BOTTOM" -> MosaicParent("column", otherNode, sourceNode, 50)

Dropped == pc = "dropped"

SourceNode == getNodeAtPath(root, sourcePath)

DestinationNode == getNodeAtPath(root, destinationPath)

BothResolve == SourceNode # Null /\ DestinationNode # Null

SourceParentPath == SubSeq(sourcePath, 1, Len(sourcePath) - 1)

\* what is left of the destination subtree once the source is taken out of it
DestinationRemainder ==
  IF IsStrictPrefix(destinationPath, sourcePath)
  THEN RemoveAt(DestinationNode, SubSeq(sourcePath, Len(destinationPath) + 1, Len(sourcePath)))
  ELSE DestinationNode

LastUpdate == updates[Len(updates)]

\* the destination goes down from the source's parent through the other branch
DestinationUnderSibling ==
  /\ Len(sourcePath) > 0
  /\ IsStrictPrefix(SourceParentPath, destinationPath)
  /\ destinationPath[Len(sourcePath)] = OtherSide(sourcePath[Len(sourcePath)])

\* the destination goes down from the source's parent through the source's branch
DestinationUnderSourceBranch ==
  /\ Len(sourcePath) > 0
  /\ IsStrictPrefix(SourceParentPath, destinationPath)
  /\ destinationPath[Len(sourcePath)] = sourcePath[Len(sourcePath)]
  /\ destinationPath # sourcePath

SameParent ==
  /\ Len(sourcePath) > 0
  /\ Len(destinationPath) > 0
  /\ SourceParentPath = SubSeq(destinationPath, 1, Len(destinationPath) - 1)
  /\ sourcePath # destinationPath

Unrelated ==
  /\ ~IsPrefix(sourcePath, destinationPath)
  /\ ~IsPrefix(destinationPath, sourcePath)
  /\ ~IsPrefix(SourceParentPath, destinationPath)

(***************************************************************************)
(* Properties of the drag relocation.                                      *)
(***************************************************************************)
\* C1: after a drop between two different resolving paths of a tree with
\* distinct leaves, every leaf of the original tree occurs exactly once in the
\* result and source and destination are the two children of one Split, the
\* source on the requested side.  Stated for the pairs where the move exists
\* at all (the source is not an ancestor of the destination); the destination
\* is taken without the source when it contained it.
C1_DragKeepsLeavesAndJoins ==
  (Dropped /\ BothResolve /\ sourcePath # destinationPath
     /\ ~IsPrefix(sourcePath, destinationPath))
  => /\ ~threw
     /\ ExactlyOnceEach(getLeaves(result), getLeaves(root))
     /\ \E q \in PathsIn(result) :
          getNodeAtPath(result, q) = ExpectedJoint(SourceNode, DestinationRemainder, position)

\* C2: when the destination lies inside the subtree of the source's sibling,
\* the result is the tree with the source's parent collapsed to the sibling
\* and the destination node replaced by the joint Split.
C2_DropUnderSiblingCollapsesAndJoins ==
  (Dropped /\ BothResolve /\ DestinationUnderSibling)
  => result = ReplaceAt(RemoveAt(root, sourcePath),
                        SourceParentPath
                          \o SubSeq(destinationPath, Len(sourcePath) + 1, Len(destinationPath)),
                        ExpectedJoint(SourceNode, DestinationNode, position))

\* C3: when the destination is an ancestor of the source, the batch is the
\* single $set at destinationPath of the joint Split of the source and of the
\* destination without the source, and applying it keeps every leaf once.
C3_AncestorDestinationSingleSet ==
  (Dropped /\ BothResolve /\ IsStrictPrefix(destinationPath, sourcePath))
  => /\ ~threw
     /\ updates = <<Update(destinationPath,
                           SetSpec(ExpectedJoint(SourceNode, DestinationRemainder, position)))>>
     /\ ExactlyOnceEach(getLeaves(result), getLeaves(root))

C3_Witness ==
  /\ Dropped /\ BothResolve
  /\ IsStrictPrefix(destinationPath, sourcePath)
  /\ Len(destinationPath) = 1
  /\ Len(sourcePath) = 3
  /\ Len(updates) = 1

\* C4: when source and destination have the same parent, the batch is
\* [remove source, $set of the joint Split at the parent's path]; the result
\* is the tree with the parent replaced by the joint Split, and no node
\* outside the parent's subtree changes.
C4_SiblingsReplaceParent ==
  (Dropped /\ BothResolve /\ SameParent)
  => /\ ~threw
     /\ updates = <<Update(SourceParentPath, SetSpec(DestinationNode)),
                    Update(SourceParentPath,
                           SetSpec(ExpectedJoint(SourceNode, DestinationNode, position)))>>
     /\ result = ReplaceAt(root, SourceParentPath,
                           ExpectedJoint(SourceNode, DestinationNode, position))
     /\ \A r \in PathsIn(root) :
          (~IsPrefix(SourceParentPath, r) /\ ~IsPrefix(r, SourceParentPath))
          => getNodeAtPath(result, r) = getNodeAtPath(root, r)

C4_Witness ==
  /\ Dropped /\ BothResolve /\ SameParent
  /\ Len(sourcePath) = 2
  /\ Len(updates) = 2
  /\ result # root

\* C5: whenever the source's parent path (the empty one included) is a strict
\* prefix of the destination path and the destination continues through the
\* source's own branch, the final $set goes to the destination path with that
\* branch segment deleted.
C5_RebasedPathDropsBranchSegment ==
  (Dropped /\ BothResolve /\ DestinationUnderSourceBranch)
  => /\ updates # <<>>
     /\ HasSet(LastUpdate.spec)
     /\ LastUpdate.path =
          SourceParentPath
            \o SubSeq(destinationPath, Len(sourcePath) + 1, Len(destinationPath))

\* C6: for unrelated source and destination the batch is
\* [createRemoveUpdate(root, sourcePath), $set of the joint Split at the
\* original destinationPath], and after the first update alone the
\* destination subtree is still at destinationPath, unchanged.
C6_UnrelatedNeedsNoRebase ==
  (Dropped /\ BothResolve /\ Unrelated)
  => /\ ~threw
     /\ ~createRemoveUpdate(root, sourcePath).threw
     /\ updates = <<createRemoveUpdate(root, sourcePath).value,
                    Update(destinationPath,
                           SetSpec(ExpectedJoint(SourceNode, DestinationNode, position)))>>
     /\ getNodeAtPath(updateTree(root, <<updates[1]>>), destinationPath) = DestinationNode
     /\ updateTree(root, <<updates[1]>>) = RemoveAt(root, sourcePath)

C6_Witness ==
  /\ Dropped /\ BothResolve /\ Unrelated
  /\ Len(updates) = 2
  /\ result = ReplaceAt(RemoveAt(root, sourcePath), destinationPath,
                        ExpectedJoint(SourceNode, DestinationNode, position))

\* C7: the batch is empty when the source does not resolve, when the
\* destination does not resolve and when both paths are equal, and applying
\* it returns the tree unchanged.
C7_NoOpDrops ==
  (Dropped /\ (SourceNode = Null \/ DestinationNode = Null \/ sourcePath = destinationPath))
  => /\ ~threw
     /\ updates = <<>>
     /\ result = root

C7_Witness ==
  /\ Dropped /\ BothResolve
  /\ sourcePath = destinationPath
  /\ Len(sourcePath) = 2
  /\ updates = <<>>
  /\ result = root

\* C8 as stated: the last update of every non-empty batch is the $set of the
\* Split with splitPercentage 50, direction by side, the source on its side
\* and the destination in the other slot.
C8_LastIsJointOfSourceAndDestination ==
  (Dropped /\ updates # <<>>)
  => LastUpdate.spec = SetSpec(ExpectedJoint(SourceNode, DestinationNode, position))

\* C8 amended: ... and in the other slot the destination, or, when the
\* destination is an ancestor of the source, the destination without the
\* source.
C8_LastIsJointOfSourceAndRemainder ==
  (Dropped /\ updates # <<>>)
  => LastUpdate.spec = SetSpec(ExpectedJoint(SourceNode, DestinationRemainder, position))

C8_Witness ==
  /\ Dropped
  /\ Len(updates) = 2
  /\ position = "BOTTOM"
  /\ LastUpdate.spec.set.direction = "column"
  /\ LastUpdate.spec.set.second = SourceNode
  /\ SourceNode.kind = "split"

(***************************************************************************)
(* Update specification: a caller applies one batch of updates to a tree   *)
(* (null included) with updateTree.  The batch is drawn from the updates   *)
(* the constructors and the MosaicUpdateSpec type allow: $set of a node    *)
(* (null is the placeholder of createHideUpdate) and partial patches.      *)
(***************************************************************************)
ReplaceNodes ==
  {MosaicParent("column", Leaf("x"), Leaf("y"), 50)}

PatchSpec(fields) == [k \in {"kind"} \cup DOMAIN fields |->
                        IF k = "kind" THEN "patch" ELSE fields[k]]

Patches ==
  {PatchSpec([splitPercentage |-> [set |-> 70]]),
   PatchSpec([first |-> SetSpec(Leaf("x"))]),
   PatchSpec([direction |-> [set |-> "column"],
              second |-> PatchSpec([splitPercentage |-> [set |-> 70]])])}

UpdatePaths == UNION {PathsOfLen(n) : n \in 0..MaxUpdPathLen}

Updates ==
  {createHideUpdate(path) : path \in UpdatePaths}
    \cup {createReplaceUpdate(path, node) : path \in UpdatePaths, node \in ReplaceNodes}
    \cup {Update(path, spec) : path \in UpdatePaths, spec \in Patches}

\* the batches of exactly n updates
BatchesOfLen(n) == [1..n -> Updates]

InitUpdate ==
  /\ root \in {Null} \cup TreesUpTo(MaxUpdLeaves)
  /\ sourcePath = <<>>
  /\ destinationPath = <<>>
  /\ position = "LEFT"
  /\ updates = <<>>
  /\ threw = FALSE
  /\ result = Null
  /\ pc = "idle"
  /\ call = NoCall
  /\ NoComponent

UpdateTree ==
  /\ pc = "idle"
  /\ \E n \in 0..MaxBatch : \E us \in BatchesOfLen(n) :
       /\ updates' = us
       /\ result' = updateTree(root, us)
  /\ threw' = FALSE
  /\ pc' = "updated"
  /\ UNCHANGED <<root, sourcePath, destinationPath, position, call>>
  /\ UNCHANGED componentVars

NextUpdate == UpdateTree

SpecUpdate == InitUpdate /\ [][NextUpdate]_vars

(***************************************************************************)
(* Properties of updateTree.                                               *)
(***************************************************************************)
Updated == pc = "updated"

RECURSIVE IsNode(_)
IsNode(n) ==
  \/ n = Null
  \/ n.kind = "leaf"
  \/ /\ n.kind = "split"
     /\ n.direction \in MosaicDirection
     /\ IsNode(n.first)
     /\ IsNode(n.second)

\* the path meets a Leaf while segments remain
RunsIntoLeaf(tree, path) ==
  \E k \in 0..(Len(path) - 1) : getNodeAtPath(tree, SubSeq(path, 1, k)).kind = "leaf"

Prefix(us, k) == SubSeq(us, 1, k)

Suffix(us, k) == SubSeq(us, k + 1, Len(us))

\* the tree the i-th update of the batch is applied to
TreeBefore(i) == updateTree(root, Prefix(updates, i - 1))

\* C9: updateTree returns a tree for every tree and batch, and an update
\* whose path runs into a Leaf leaves the current tree as it was while the
\* rest of the batch is applied as if that update were not there.
C9_UpdateTreeTotalAndLenient ==
  Updated
  => /\ ~threw
     /\ IsNode(result)
     /\ \A i \in 1..Len(updates) :
          RunsIntoLeaf(TreeBefore(i), updates[i].path)
          => /\ updateTree(root, Prefix(updates, i)) = TreeBefore(i)
             /\ result = updateTree(root, Prefix(updates, i - 1) \o Suffix(updates, i))

C9_Witness ==
  /\ Updated
  /\ Len(updates) = 2
  /\ HasSet(updates[1].spec)
  /\ RunsIntoLeaf(root, updates[1].path)
  /\ result # root

\* C10 as stated: for every split of the batch into A followed by B,
\* updateTree(root, A followed by B) = updateTree(updateTree(root, A), B).
C10_BatchSplitsAnywhere ==
  Updated
  => \A k \in 0..Len(updates) :
       result = updateTree(updateTree(root, Prefix(updates, k)), Suffix(updates, k))

\* C10 amended: the same, for the splits where A does not turn a tree into
\* the empty layout (updateTree(root, A) is null only when root is null).
C10_BatchSplitsWhereTreeRemains ==
  Updated
  => \A k \in 0..Len(updates) :
       (updateTree(root, Prefix(updates, k)) # Null \/ root = Null)
       => result = updateTree(updateTree(root, Prefix(updates, k)), Suffix(updates, k))

C10_Witness ==
  /\ Updated
  /\ Len(updates) = 2
  /\ updateTree(root, Prefix(updates, 1)) \notin {Null, root}
  /\ result \notin {Null, root, updateTree(root, Prefix(updates, 1)),
                    updateTree(root, Suffix(updates, 1))}

IsRootSet(update) == Len(update.path) = 0 /\ HasSet(update.spec)

\* C11 as stated: right after a root-level $set, at any position of a batch
\* and for every base tree (null included), the tree is the node of the $set.
C11_RootSetReplacesWholeTree ==
  Updated
  => \A i \in 1..Len(updates) :
       IsRootSet(updates[i])
       => updateTree(root, Prefix(updates, i)) = updates[i].spec.set

\* C11 amended: the same for every base tree that is not null (updateTree
\* returns null for a null base tree whatever the batch).
C11_RootSetReplacesNonNullTree ==
  (Updated /\ root # Null)
  => \A i \in 1..Len(updates) :
       IsRootSet(updates[i])
       => updateTree(root, Prefix(updates, i)) = updates[i].spec.set

C11_Witness ==
  /\ Updated
  /\ root # Null
  /\ Len(updates) = 2
  /\ ~IsRootSet(updates[1])
  /\ updateTree(root, Prefix(updates, 1)) # root
  /\ IsRootSet(updates[2])
  /\ result = updates[2].spec.set
  /\ result.kind = "split"

(***************************************************************************)
(* Single-call specification: a caller builds one update, by hand or with  *)
(* createRemoveUpdate or createExpandUpdate, and applies it to a tree with *)
(* updateTree.                                                             *)
(***************************************************************************)
\* an optional argument of a call: left out, or given with a value
Omitted == [given |-> FALSE]

Given(value) == [given |-> TRUE, value |-> value]

\* the default of createExpandUpdate's percentage parameter
DefaultPercentage == 70

\* an expand that forgets which branch the node is on
createExpandUpdate_IgnoresBranch(path, percentage) ==
  LET percent == IF percentage.given THEN percentage.value ELSE DefaultPercentage
  IN  IF Len(path) = 0 THEN Thrown("Cannot expand root node")
      ELSE Returned(Update(DropLast(path),
                           PatchSpec([splitPercentage |-> [set |-> percent]])))

\* an expand without the guard against the empty path
createExpandUpdate_AcceptsRoot(path, percentage) ==
  LET percent == IF percentage.given THEN percentage.value ELSE DefaultPercentage
      splitPercentage == IF At(path, Len(path) - 1) = "first" THEN percent
                         ELSE 100 - percent
  IN  Returned(Update(DropLast(path),
                      PatchSpec([splitPercentage |-> [set |-> splitPercentage]])))

createExpandUpdate(path, percentage) ==
  LET percent == IF percentage.given THEN percentage.value ELSE DefaultPercentage
  IN  IF Len(path) = 0 THEN Thrown("Cannot expand root node")
      ELSE
        LET parentPath == DropLast(path)
            branch == path[Len(path)]
            splitPercentage == IF branch = "first" THEN percent ELSE 100 - percent
        IN  Returned(Update(parentPath,
                            PatchSpec([splitPercentage |-> [set |-> splitPercentage]])))

\* the nodes a $set carries
SetNodes == {Null, Leaf("x")} \cup ReplaceNodes

\* the specs of a single update
OneSpecs == {SetSpec(node) : node \in SetNodes} \cup Patches

\* the percentages an expand is asked for
ExpandPercentages == {0, 30, 100}

InitOne ==
  /\ root \in {Null} \cup TreesUpTo(MaxLeaves)
  /\ sourcePath = <<>>
  /\ destinationPath = <<>>
  /\ position = "LEFT"
  /\ updates = <<>>
  /\ threw = FALSE
  /\ result = Null
  /\ pc = "idle"
  /\ call = NoCall
  /\ NoComponent

\* updateTree(root, [update])
ApplyUpdate ==
  /\ pc = "idle"
  /\ \E path \in MosaicPath, spec \in OneSpecs :
       /\ updates' = <<Update(path, spec)>>
       /\ result' = updateTree(root, <<Update(path, spec)>>)
       /\ call' = [op |-> "updateTree", path |-> path]
  /\ threw' = FALSE
  /\ pc' = "applied"
  /\ UNCHANGED <<root, sourcePath, destinationPath, position>>
  /\ UNCHANGED componentVars

\* updateTree(root, [createRemoveUpdate(root, path)])
RemoveNode ==
  /\ pc = "idle"
  /\ \E path \in MosaicPath :
       LET update == createRemoveUpdate(root, path)
       IN  /\ threw' = update.threw
           /\ updates' = IF update.threw THEN <<>> ELSE <<update.value>>
           /\ result' = IF update.threw THEN root
                        ELSE updateTree(root, <<update.value>>)
           /\ call' = [op |-> "remove", path |-> path]
  /\ pc' = "removed"
  /\ UNCHANGED <<root, sourcePath, destinationPath, position>>
  /\ UNCHANGED componentVars

\* updateTree(root, [createExpandUpdate(path, percentage)])
ExpandNode ==
  /\ pc = "idle"
  /\ \E path \in MosaicPath,
        percentage \in {Omitted} \cup {Given(p) : p \in ExpandPercentages} :
       LET update == createExpandUpdate(path, percentage)
       IN  /\ threw' = update.threw
           /\ updates' = IF update.threw THEN <<>> ELSE <<update.value>>
           /\ result' = IF update.threw THEN root
                        ELSE updateTree(root, <<update.value>>)
           /\ call' = [op |-> "expand", path |-> path, percentage |-> percentage]
  /\ pc' = "expanded"
  /\ UNCHANGED <<root, sourcePath, destinationPath, position>>
  /\ UNCHANGED componentVars

NextOne == ApplyUpdate \/ RemoveNode \/ ExpandNode

SpecOne == InitOne /\ [][NextOne]_vars

Applied == pc = "applied"

\* neither path leads to the other
Apart(p, q) == ~IsPrefix(p, q) /\ ~IsPrefix(q, p)

\* C12: one update at path P leaves every subtree at a path that is neither
\* a prefix nor an extension of P as it was, and every Split at a proper
\* prefix of P keeps its direction and its splitPercentage.
C12_UpdateChangesNothingOffPath ==
  Applied
  => LET P == updates[1].path
     IN  /\ \A q \in PathsIn(root) \cup PathsIn(result) :
              Apart(q, P) => getNodeAtPath(result, q) = getNodeAtPath(root, q)
         /\ \A q \in PathsIn(root) :
              (IsStrictPrefix(q, P) /\ isParent(getNodeAtPath(root, q)))
              => /\ isParent(getNodeAtPath(result, q))
                 /\ getNodeAtPath(result, q).direction = getNodeAtPath(root, q).direction
                 /\ getNodeAtPath(result, q).splitPercentage
                      = getNodeAtPath(root, q).splitPercentage

C12_Witness ==
  /\ Applied
  /\ Len(updates[1].path) = 2
  /\ result # root
  /\ \E q \in PathsIn(root) :
       /\ Apart(q, updates[1].path)
       /\ isParent(getNodeAtPath(root, q))
       /\ getNodeAtPath(result, q) = getNodeAtPath(root, q)

Removed == pc = "removed"

\* the parent of the removed path is a Split of the tree
ParentIsSplit == Len(call.path) > 0 /\ isParent(getNodeAtPath(root, DropLast(call.path)))

\* the sequence without the elements that occur in `gone`
Without(seq, gone) == SelectSeq(seq, LAMBDA id : id \notin Range(gone))

\* C13: removing the node at a non-empty path whose parent is a Split puts
\* the sibling subtree exactly at the parent's path, changes nothing else,
\* and the leaves of the result are the original leaves without those of the
\* removed subtree, in the same order.
C13_RemovePromotesSibling ==
  (Removed /\ ParentIsSplit)
  => LET P == call.path
         parentPath == DropLast(P)
         sibling == getNodeAtPath(root, parentPath \o <<OtherSide(P[Len(P)])>>)
         removed == getNodeAtPath(root, P)
     IN  /\ ~threw
         /\ getNodeAtPath(result, parentPath) = sibling
         /\ result = ReplaceAt(root, parentPath, sibling)
         /\ getLeaves(result) = Without(getLeaves(root), getLeaves(removed))

C13_Witness ==
  /\ Removed
  /\ ParentIsSplit
  /\ Len(call.path) = 2
  /\ isParent(getNodeAtPath(root, call.path))
  /\ Len(getLeaves(result)) = 2
  /\ getNodeAtPath(result, DropLast(call.path)).kind = "leaf"

\* C14: createRemoveUpdate throws, and returns no update, exactly when the
\* path is empty or its parent path does not resolve to a Split; in every
\* other case it returns one update and throws nothing.
C14_RemoveThrowsExactlyOnRootOrBadParent ==
  Removed
  => /\ threw <=> ~ParentIsSplit
     /\ threw => updates = <<>>
     /\ ~threw => Len(updates) = 1 /\ updates[1].path = DropLast(call.path)

C14_Witness ==
  /\ Removed
  /\ threw
  /\ root # Null
  /\ Len(call.path) = 2
  /\ getNodeAtPath(root, DropLast(call.path)).kind = "leaf"

(***************************************************************************)
(* Layout (bounding-box and MosaicRoot / MosaicNodeRenderer).  Coordinates *)
(* are numbers of 1/Scale percent, so that every split point of a tree of  *)
(* the model is a whole number and the divisions below are exact.          *)
(***************************************************************************)
Scale == 10 ^ (MaxLeaves - 1)

Max(a, b) == IF a >= b THEN a ELSE b

Min(a, b) == IF a <= b THEN a ELSE b

createBoundingBox(top, right, bottom, left) ==
  [top |-> top, right |-> right, bottom |-> bottom, left |-> left]

getWidth(box) == box.right - box.left

getHeight(box) == box.bottom - box.top

\* a split that does not clamp the percentage
split_NoClamp(box, percentage, direction) ==
  LET percent == percentage
  IN  IF direction = "row"
      THEN LET splitPoint == box.left + (getWidth(box) * percent) \div 100
           IN  <<createBoundingBox(box.top, splitPoint, box.bottom, box.left),
                 createBoundingBox(box.top, box.right, box.bottom, splitPoint)>>
      ELSE LET splitPoint == box.top + (getHeight(box) * percent) \div 100
           IN  <<createBoundingBox(box.top, box.right, splitPoint, box.left),
                 createBoundingBox(splitPoint, box.right, box.bottom, box.left)>>

split(box, percentage, direction) ==
  LET percent == Max(0, Min(100, percentage))
  IN  IF direction = "row"
      THEN LET splitPoint == box.left + (getWidth(box) * percent) \div 100
           IN  <<createBoundingBox(box.top, splitPoint, box.bottom, box.left),
                 createBoundingBox(box.top, box.right, box.bottom, splitPoint)>>
      ELSE LET splitPoint == box.top + (getHeight(box) * percent) \div 100
           IN  <<createBoundingBox(box.top, box.right, splitPoint, box.left),
                 createBoundingBox(splitPoint, box.right, box.bottom, box.left)>>

\* the renderer instances of a subtree: each node with its path and its box
RECURSIVE MosaicNodeRenderer(_, _, _)
MosaicNodeRenderer(node, path, boundingBox) ==
  IF ~isParent(node) THEN {[path |-> path, boundingBox |-> boundingBox]}
  ELSE
    LET splitPercentage == IF Has(node, "splitPercentage") THEN node.splitPercentage ELSE 50
        boxes == split(boundingBox, splitPercentage, node.direction)
    IN  {[path |-> path, boundingBox |-> boundingBox]}
          \cup MosaicNodeRenderer(node.first, path \o <<"first">>, boxes[1])
          \cup MosaicNodeRenderer(node.second, path \o <<"second">>, boxes[2])

MosaicRoot(tree) ==
  IF tree = Null THEN {}
  ELSE MosaicNodeRenderer(tree, <<>>, createBoundingBox(0, 100 * Scale, 100 * Scale, 0))

\* the box the node at the path is rendered in
BoxAt(tree, path) ==
  (CHOOSE r \in MosaicRoot(tree) : r.path = path).boundingBox

\* the extent of a box along the axis a Split of that direction divides
Extent(box, direction) == IF direction = "row" THEN getWidth(box) ELSE getHeight(box)

Expanded == pc = "expanded"

\* the percentage the expand asked for
AskedPercentage == IF call.percentage.given THEN call.percentage.value ELSE 70

\* C15: after expanding the node at a non-empty path whose parent is a Split
\* to p percent (70 when p is left out), the parent's splitPercentage is p
\* for a first child and 100 - p for a second child, the node's box takes p
\* percent of its parent's box along the split axis, and nothing else in the
\* tree changes.
C15_ExpandGivesNodeItsPercentage ==
  (Expanded /\ ParentIsSplit)
  => LET P == call.path
         parentPath == DropLast(P)
         parent == getNodeAtPath(root, parentPath)
         expected == IF P[Len(P)] = "first" THEN AskedPercentage
                     ELSE 100 - AskedPercentage
     IN  /\ ~threw
         /\ getNodeAtPath(result, parentPath).splitPercentage = expected
         /\ result = ReplaceAt(root, parentPath,
                               [parent EXCEPT !.splitPercentage = expected])
         /\ 100 * Extent(BoxAt(result, P), parent.direction)
              = AskedPercentage * Extent(BoxAt(result, parentPath), parent.direction)

C15_Witness ==
  /\ Expanded
  /\ ParentIsSplit
  /\ Len(call.path) = 2
  /\ call.path[2] = "second"
  /\ call.percentage = Given(30)
  /\ getNodeAtPath(result, DropLast(call.path)).splitPercentage = 70
  /\ Extent(BoxAt(result, call.path), getNodeAtPath(root, DropLast(call.path)).direction) > 0

\* C16 as stated: expanding a node of a tree whose parent path does not
\* resolve to a Split fails at the call that constructs the update.
C16_ExpandFailsOnBadParent ==
  (Expanded /\ root # Null /\ ~ParentIsSplit) => threw

\* C16 amended: constructing an expand update fails exactly for the empty
\* path; when the parent path does not resolve to a Split the update is
\* constructed without error and updateTree returns the tree unchanged.
C16_ExpandOnBadParentIsSilentNoOp ==
  Expanded
  => /\ threw <=> Len(call.path) = 0
     /\ (~threw /\ ~ParentIsSplit)
        => /\ Len(updates) = 1
           /\ updates[1].path = DropLast(call.path)
           /\ result = root

C16_Witness ==
  /\ Expanded
  /\ isParent(root)
  /\ Len(call.path) = 2
  /\ getNodeAtPath(root, DropLast(call.path)).kind = "leaf"
  /\ ~threw
  /\ Len(updates) = 1
  /\ result = root

\* C17: applying the same $set update twice gives the same tree as applying
\* it once: updateTree(root, [u, u]) = updateTree(root, [u]).
C17_SetTwiceIsSetOnce ==
  (Applied /\ HasSet(updates[1].spec))
  => updateTree(root, updates \o updates) = result

C17_Witness ==
  /\ Applied
  /\ HasSet(updates[1].spec)
  /\ Len(updates[1].path) = 2
  /\ isParent(updates[1].spec.set)
  /\ result # root
  /\ getNodeAtPath(result, updates[1].path) = updates[1].spec.set
  /\ updateTree(root, updates \o updates) = result

(***************************************************************************)
(* Balanced-tree specification: a caller builds a tree from a list of      *)
(* leaves with createBalancedTreeFromLeaves.                               *)
(***************************************************************************)
getOtherDirection(direction) == IF direction = "row" THEN "column" ELSE "row"

RECURSIVE getTreeDepth(_)
getTreeDepth(node) ==
  IF node = Null THEN 0
  ELSE IF isParent(node)
  THEN 1 + Max(getTreeDepth(node.first), getTreeDepth(node.second))
  ELSE 1

\* a builder that leaves the middle leaf out of the second half
RECURSIVE createBalancedTreeFromLeaves_DropsMiddle(_, _)
createBalancedTreeFromLeaves_DropsMiddle(leaves, startDirection) ==
  LET direction == IF startDirection.given THEN startDirection.value ELSE "row"
  IN  IF Len(leaves) = 0 THEN Null
      ELSE IF Len(leaves) = 1 THEN Leaf(leaves[1])
      ELSE
        LET mid == Len(leaves) \div 2
            first == createBalancedTreeFromLeaves_DropsMiddle(
                       SubSeq(leaves, 1, mid), Given(getOtherDirection(direction)))
            second == createBalancedTreeFromLeaves_DropsMiddle(
                        SliceFrom(leaves, mid + 1), Given(getOtherDirection(direction)))
        IN  IF first = Null \/ second = Null
            THEN (IF first # Null THEN first ELSE second)
            ELSE MosaicParent(direction, first, second, 50)

\* a builder that always splits after the first leaf
RECURSIVE createBalancedTreeFromLeaves_SplitsAfterFirst(_, _)
createBalancedTreeFromLeaves_SplitsAfterFirst(leaves, startDirection) ==
  LET direction == IF startDirection.given THEN startDirection.value ELSE "row"
  IN  IF Len(leaves) = 0 THEN Null
      ELSE IF Len(leaves) = 1 THEN Leaf(leaves[1])
      ELSE
        LET mid == 1
            first == createBalancedTreeFromLeaves_SplitsAfterFirst(
                       SubSeq(leaves, 1, mid), Given(getOtherDirection(direction)))
            second == createBalancedTreeFromLeaves_SplitsAfterFirst(
                        SliceFrom(leaves, mid), Given(getOtherDirection(direction)))
        IN  IF first = Null \/ second = Null
            THEN (IF first # Null THEN first ELSE second)
            ELSE MosaicParent(direction, first, second, 50)

RECURSIVE createBalancedTreeFromLeaves(_, _)
createBalancedTreeFromLeaves(leaves, startDirection) ==
  LET direction == IF startDirection.given THEN startDirection.value ELSE "row"
  IN  IF Len(leaves) = 0 THEN Null
      ELSE IF Len(leaves) = 1 THEN Leaf(leaves[1])
      ELSE
        LET mid == Len(leaves) \div 2
            first == createBalancedTreeFromLeaves(
                       SubSeq(leaves, 1, mid), Given(getOtherDirection(direction)))
            second == createBalancedTreeFromLeaves(
                        SliceFrom(leaves, mid), Given(getOtherDirection(direction)))
        IN  IF first = Null \/ second = Null
            THEN (IF first # Null THEN first ELSE second)
            ELSE MosaicParent(direction, first, second, 50)

\* the leaves a list is made of; a list may repeat them
ListIds == {"a", "b", "c"}

InitBalanced ==
  /\ root = Null
  /\ sourcePath = <<>>
  /\ destinationPath = <<>>
  /\ position = "LEFT"
  /\ updates = <<>>
  /\ threw = FALSE
  /\ result = Null
  /\ pc = "idle"
  /\ call = NoCall
  /\ NoComponent

\* createBalancedTreeFromLeaves(leaves, startDirection)
Build ==
  /\ pc = "idle"
  /\ \E n \in 0..MaxList :
       \E leaves \in [1..n -> ListIds],
          startDirection \in {Omitted} \cup {Given(d) : d \in MosaicDirection} :
         /\ result' = createBalancedTreeFromLeaves(leaves, startDirection)
         /\ call' = [op |-> "build", leaves |-> leaves, startDirection |-> startDirection]
  /\ pc' = "built"
  /\ UNCHANGED <<root, sourcePath, destinationPath, position, updates, threw>>
  /\ UNCHANGED componentVars

NextBalanced == Build

SpecBalanced == InitBalanced /\ [][NextBalanced]_vars

Built == pc = "built"

\* C18: the leaves of the tree built from a list, read left to right, are
\* the list itself (repeated leaves included, either start direction); the
\* tree is null for the empty list and the bare leaf for a list of one.
C18_BalancedTreeKeepsLeaves ==
  Built
  => /\ getLeaves(result) = call.leaves
     /\ Len(call.leaves) = 0 => result = Null
     /\ Len(call.leaves) = 1 => result = Leaf(call.leaves[1])

C18_Witness ==
  /\ Built
  /\ Len(call.leaves) = 5
  /\ call.leaves[1] = call.leaves[3]
  /\ call.leaves[2] # call.leaves[1]
  /\ call.startDirection = Given("column")
  /\ isParent(result)
  /\ result.direction = "column"
  /\ getLeaves(result) = call.leaves

\* the least k with 2^k >= n, for n >= 1
CeilLog2(n) == CHOOSE k \in 0..n : 2 ^ k >= n /\ \A j \in 0..(k - 1) : 2 ^ j < n

\* C19: the tree built from a list of n >= 1 leaves is at most
\* ceil(log2(n)) + 1 deep, a single Leaf being 1 deep.
C19_BalancedTreeDepth ==
  (Built /\ Len(call.leaves) >= 1)
  => getTreeDepth(result) <= CeilLog2(Len(call.leaves)) + 1

C19_Witness ==
  /\ Built
  /\ Len(call.leaves) = 5
  /\ getTreeDepth(result) = 4
  /\ CeilLog2(5) = 3

(***************************************************************************)
(* Corner specification: a caller asks for the path to a corner of a tree  *)
(* whose Splits may or may not carry a splitPercentage.                    *)
(***************************************************************************)
Corner == [TOP_LEFT |-> 1, TOP_RIGHT |-> 2, BOTTOM_LEFT |-> 3, BOTTOM_RIGHT |-> 4]

Corners == {Corner[name] : name \in DOMAIN Corner}

containsPoint(box, x, y) ==
  x >= box.left /\ x <= box.right /\ y >= box.top /\ y <= box.bottom

\* a search that picks the branch of a row by top and of a column by left
RECURSIVE getPathToCorner_AxesSwapped(_, _)
getPathToCorner_AxesSwapped(node, corner) ==
  IF ~isParent(node) THEN <<>>
  ELSE
    LET isTop == corner = Corner.TOP_LEFT \/ corner = Corner.TOP_RIGHT
        isLeft == corner = Corner.TOP_LEFT \/ corner = Corner.BOTTOM_LEFT
        branch == IF (node.direction = "column" /\ isLeft) \/ (node.direction = "row" /\ isTop)
                  THEN "first" ELSE "second"
    IN  <<branch>> \o getPathToCorner_AxesSwapped(Child(node, branch), corner)

\* the while loop of getPathToCorner, one iteration per call
RECURSIVE getPathToCorner(_, _)
getPathToCorner(node, corner) ==
  IF ~isParent(node) THEN <<>>
  ELSE
    LET isTop == corner = Corner.TOP_LEFT \/ corner = Corner.TOP_RIGHT
        isLeft == corner = Corner.TOP_LEFT \/ corner = Corner.BOTTOM_LEFT
        branch == IF (node.direction = "column" /\ isTop) \/ (node.direction = "row" /\ isLeft)
                  THEN "first" ELSE "second"
    IN  <<branch>> \o getPathToCorner(Child(node, branch), corner)

\* the splitPercentage of a Split of a layout: absent, or one of these
SplitPercentages == {Omitted, Given(30), Given(100)}

\* a MosaicParent whose splitPercentage is optional
OptionalParent(direction, first, second, splitPercentage) ==
  IF splitPercentage.given
  THEN MosaicParent(direction, first, second, splitPercentage.value)
  ELSE [kind |-> "split", direction |-> direction, first |-> first, second |-> second]

RECURSIVE LayoutsOver(_)
LayoutsOver(ids) ==
  IF Len(ids) = 1 THEN {Leaf(ids[1])}
  ELSE UNION {
         {OptionalParent(d, f, s, p) :
            d \in MosaicDirection, p \in SplitPercentages,
            f \in LayoutsOver(SubSeq(ids, 1, k)),
            s \in LayoutsOver(SubSeq(ids, k + 1, Len(ids)))} :
         k \in 1..(Len(ids) - 1)}

LayoutsUpTo(n) == UNION {LayoutsOver(SubSeq(LeafIds, 1, m)) : m \in 1..n}

InitCorner ==
  /\ root \in LayoutsUpTo(MaxLeaves)
  /\ sourcePath = <<>>
  /\ destinationPath = <<>>
  /\ position = "LEFT"
  /\ updates = <<>>
  /\ threw = FALSE
  /\ result = Null
  /\ pc = "idle"
  /\ call = NoCall
  /\ NoComponent

\* getPathToCorner(root, corner); result holds the path returned
FindCorner ==
  /\ pc = "idle"
  /\ \E corner \in Corners :
       /\ result' = getPathToCorner(root, corner)
       /\ call' = [op |-> "corner", corner |-> corner]
  /\ pc' = "cornered"
  /\ UNCHANGED <<root, sourcePath, destinationPath, position, updates, threw>>
  /\ UNCHANGED componentVars

NextCorner == FindCorner

SpecCorner == InitCorner /\ [][NextCorner]_vars

Cornered == pc = "cornered"

\* the point of the box that the corner names
CornerPoint(box, corner) ==
  [x |-> IF corner \in {Corner.TOP_LEFT, Corner.BOTTOM_LEFT} THEN box.left ELSE box.right,
   y |-> IF corner \in {Corner.TOP_LEFT, Corner.TOP_RIGHT} THEN box.top ELSE box.bottom]

\* C20: the path getPathToCorner returns resolves to a Leaf, and in the
\* projection of the tree onto the root box (each Split divided at its
\* splitPercentage, 50 when absent) the box of that Leaf touches the requested
\* corner of the root box; for row{a, b} and the top-right corner the path
\* is [second].
C20_PathToCornerReachesCornerLeaf ==
  Cornered
  => LET point == CornerPoint(BoxAt(root, <<>>), call.corner)
     IN  /\ getNodeAtPath(root, result).kind = "leaf"
         /\ containsPoint(BoxAt(root, result), point.x, point.y)
         /\ (/\ isParent(root)
             /\ root.direction = "row"
             /\ root.first = Leaf("a")
             /\ root.second = Leaf("b")
             /\ call.corner = Corner.TOP_RIGHT)
            => result = <<"second">>

C20_Witness ==
  /\ Cornered
  /\ call.corner = Corner.TOP_RIGHT
  /\ isParent(root)
  /\ ~Has(root, "splitPercentage")
  /\ root.direction = "row"
  /\ result = <<"second", "first">>
  /\ BoxAt(root, result) = createBoundingBox(0, 100 * Scale, 30 * Scale, 50 * Scale)

(***************************************************************************)
(* Split-geometry specification: a caller divides a box with split.        *)
(***************************************************************************)
\* the largest coordinate of a box, in hundreds of units
MaxCoord == 2

\* coordinates are multiples of 100, so that every division by 100 is exact
Coords == {100 * n : n \in 0..MaxCoord}

BoundingBoxes ==
  {createBoundingBox(top, right, bottom, left) :
     top \in Coords, right \in Coords, bottom \in Coords, left \in Coords}

\* the boxes with left <= right and top <= bottom
ProperBoxes == {box \in BoundingBoxes : box.left <= box.right /\ box.top <= box.bottom}

\* the percentages split is called with, some of them out of range
SplitArguments == {0 - 10, 0, 30, 50, 100, 150}

InitSplit ==
  /\ root = Null
  /\ sourcePath = <<>>
  /\ destinationPath = <<>>
  /\ position = "LEFT"
  /\ updates = <<>>
  /\ threw = FALSE
  /\ result = Null
  /\ pc = "idle"
  /\ call = NoCall
  /\ NoComponent

\* split(box, percentage, direction); result holds the two boxes returned
SplitBox ==
  /\ pc = "idle"
  /\ \E box \in ProperBoxes, percentage \in SplitArguments, direction \in MosaicDirection :
       /\ result' = split(box, percentage, direction)
       /\ call' = [op |-> "split", box |-> box, percentage |-> percentage,
                   direction |-> direction]
  /\ pc' = "split"
  /\ UNCHANGED <<root, sourcePath, destinationPath, position, updates, threw>>
  /\ UNCHANGED componentVars

NextSplit == SplitBox

SpecSplit == InitSplit /\ [][NextSplit]_vars

HasSplit == pc = "split"

Clamp(p, low, high) == IF p < low THEN low ELSE IF p > high THEN high ELSE p

\* sample points: every fifth unit from just outside the boxes to just outside
SamplePoints == {5 * n - 5 : n \in 0..(20 * MaxCoord + 2)}

\* strictly inside the box
InInterior(box, x, y) ==
  x > box.left /\ x < box.right /\ y > box.top /\ y < box.bottom

\* C21: split(B, p, d) returns two boxes that share one edge at B's start
\* plus extent * clamp(p, 0, 100) / 100, whose union is exactly B and whose
\* interiors do not overlap; for row both keep B's top and bottom, for column
\* both keep B's left and right.
C21_SplitTilesTheBox ==
  HasSplit
  => LET B == call.box
         first == result[1]
         second == result[2]
         percent == Clamp(call.percentage, 0, 100)
     IN  /\ call.direction = "row"
            => /\ 100 * first.right = 100 * B.left + getWidth(B) * percent
               /\ second.left = first.right
               /\ first.left = B.left /\ second.right = B.right
               /\ first.top = B.top /\ second.top = B.top
               /\ first.bottom = B.bottom /\ second.bottom = B.bottom
         /\ call.direction = "column"
            => /\ 100 * first.bottom = 100 * B.top + getHeight(B) * percent
               /\ second.top = first.bottom
               /\ first.top = B.top /\ second.bottom = B.bottom
               /\ first.left = B.left /\ second.left = B.left
               /\ first.right = B.right /\ second.right = B.right
         /\ \A x \in SamplePoints, y \in SamplePoints :
              /\ containsPoint(B, x, y)
                 <=> (containsPoint(first, x, y) \/ containsPoint(second, x, y))
              /\ ~(InInterior(first, x, y) /\ InInterior(second, x, y))

C21_Witness ==
  /\ HasSplit
  /\ call.box = createBoundingBox(100, 200, 200, 0)
  /\ call.percentage = 30
  /\ call.direction = "row"
  /\ result[1] = createBoundingBox(100, 60, 200, 0)
  /\ result[2] = createBoundingBox(100, 200, 200, 60)

(***************************************************************************)
(* Lookup specification: a caller looks a path up in a tree, which may be  *)
(* null or hold the null placeholder a hide leaves behind, with            *)
(* getNodeAtPath and with getAndAssertNodeAtPathExists.                    *)
(***************************************************************************)
\* the trees with one node hidden by createHideUpdate
HiddenTrees ==
  {updateTree(tree, <<createHideUpdate(path)>>) :
     tree \in TreesUpTo(MaxLeaves), path \in MosaicPath \ {<<>>}}

InitLookup ==
  /\ root \in {Null} \cup TreesUpTo(MaxLeaves) \cup HiddenTrees
  /\ sourcePath = <<>>
  /\ destinationPath = <<>>
  /\ position = "LEFT"
  /\ updates = <<>>
  /\ threw = FALSE
  /\ result = Null
  /\ pc = "idle"
  /\ call = NoCall
  /\ NoComponent

\* getNodeAtPath(root, path) and getAndAssertNodeAtPathExists(root, path)
Lookup ==
  /\ pc = "idle"
  /\ \E path \in MosaicPath :
       /\ result' = getNodeAtPath(root, path)
       /\ call' = [op |-> "lookup", path |-> path,
                   asserted |-> getAndAssertNodeAtPathExists(root, path)]
  /\ pc' = "looked"
  /\ UNCHANGED <<root, sourcePath, destinationPath, position, updates, threw>>
  /\ UNCHANGED componentVars

NextLookup == Lookup

SpecLookup == InitLookup /\ [][NextLookup]_vars

Looked == pc = "looked"

\* some node on the way is not a Split while path segments remain
RECURSIVE StopsShort(_, _)
StopsShort(node, path) ==
  /\ path # <<>>
  /\ \/ ~isParent(node)
     \/ StopsShort(node[Head(path)], Tail(path))

\* the node at the end of a path that only goes through Splits
RECURSIVE Descend(_, _)
Descend(node, path) ==
  IF path = <<>> THEN node ELSE Descend(node[Head(path)], Tail(path))

\* C22 as stated: getNodeAtPath returns the node reached by the path, and
\* null exactly when some node on the way is not a Split while path segments
\* remain; getAndAssertNodeAtPathExists returns the same node and fails
\* exactly when getNodeAtPath returns null (stated for the trees that are not
\* null).
C22_NullExactlyWhenPathStopsShort ==
  (Looked /\ root # Null)
  => /\ result = Null <=> StopsShort(root, call.path)
     /\ ~StopsShort(root, call.path) => result = Descend(root, call.path)
     /\ call.asserted.threw <=> result = Null
     /\ ~call.asserted.threw => call.asserted.value = result

\* C22 amended: getNodeAtPath returns null when some node on the way is not a
\* Split while path segments remain, and otherwise the node reached, which is
\* itself null for a null tree and for a hidden node;
\* getAndAssertNodeAtPathExists returns the same node and fails exactly when
\* getNodeAtPath returns null.
C22_NullWhenPathStopsShortOrEndsOnNull ==
  Looked
  => /\ StopsShort(root, call.path) => result = Null
     /\ ~StopsShort(root, call.path) => result = Descend(root, call.path)
     /\ call.asserted.threw <=> result = Null
     /\ ~call.asserted.threw => call.asserted.value = result

C22_Witness ==
  /\ Looked
  /\ isParent(root)
  /\ Len(call.path) = 2
  /\ ~StopsShort(root, call.path)
  /\ Descend(root, call.path) = Null
  /\ result = Null
  /\ call.asserted.threw

(***************************************************************************)
(* Mosaic component specification.  The Mosaic holds the tree (root); its  *)
(* action object is rebuilt on every render and closes over the tree of    *)
(* that render (currentValue).  A handler that keeps an action object      *)
(* across renders (the document listeners of a resize drag, a window split *)
(* awaiting createNode) therefore acts on the tree it captured.            *)
(***************************************************************************)
\* most callbacks emitted before the actions stop
MaxEvents == 3

onChange(tree) == [name |-> "onChange", tree |-> tree]

onRelease(tree) == [name |-> "onRelease", tree |-> tree]

\* what calling an action does: the callbacks it emits, in order, and
\* whether an exception left it
Emits(emitted) == [threw |-> FALSE, emitted |-> emitted]

Throws == [threw |-> TRUE, emitted |-> <<>>]

\* handleChange(newValue); handleRelease(newValue)
ChangeAndRelease(newValue) == Emits(<<onChange(newValue), onRelease(newValue)>>)

\* handleChange(newValue)
ChangeOnly(newValue) == Emits(<<onChange(newValue)>>)

mosaicActions_expand(currentValue, path, percentage) ==
  IF currentValue = Null THEN Emits(<<>>)
  ELSE LET update == createExpandUpdate(path, percentage)
       IN  IF update.threw THEN Throws
           ELSE ChangeAndRelease(updateTree(currentValue, <<update.value>>))

\* a remove that lets the error of createRemoveUpdate out
mosaicActions_remove_NoCatch(currentValue, path) ==
  IF currentValue = Null THEN Emits(<<>>)
  ELSE LET update == createRemoveUpdate(currentValue, path)
       IN  IF update.threw THEN Throws
           ELSE ChangeAndRelease(updateTree(currentValue, <<update.value>>))

mosaicActions_remove(currentValue, path) ==
  IF currentValue = Null THEN Emits(<<>>)
  ELSE LET update == createRemoveUpdate(currentValue, path)
       IN  IF update.threw THEN ChangeAndRelease(Null)
           ELSE ChangeAndRelease(updateTree(currentValue, <<update.value>>))

mosaicActions_hide(currentValue, path) ==
  IF currentValue = Null THEN Emits(<<>>)
  ELSE ChangeOnly(updateTree(currentValue, <<createHideUpdate(path)>>))

mosaicActions_replaceWith(currentValue, path, node) ==
  IF currentValue = Null THEN Emits(<<>>)
  ELSE ChangeAndRelease(updateTree(currentValue, <<createReplaceUpdate(path, node)>>))

\* an updateTree action that releases whatever suppressOnRelease says
mosaicActions_updateTree_AlwaysReleases(currentValue, us, suppressOnRelease) ==
  IF currentValue = Null THEN Emits(<<>>)
  ELSE ChangeAndRelease(updateTree(currentValue, us))

mosaicActions_updateTree(currentValue, us, suppressOnRelease) ==
  IF currentValue = Null THEN Emits(<<>>)
  ELSE IF suppressOnRelease THEN ChangeOnly(updateTree(currentValue, us))
  ELSE ChangeAndRelease(updateTree(currentValue, us))

\* the tree the Mosaic holds after the callbacks: handleChange stores the
\* value it is given (setInternalValue)
ValueAfter(value, emitted) ==
  LET changes == SelectSeq(emitted, LAMBDA e : e.name = "onChange")
  IN  IF Len(changes) = 0 THEN value ELSE changes[Len(changes)].tree

\* the default of the resize option and of Split's minimumPaneSizePercentage
minimumPaneSizePercentage == 20

\* the percentage a pointer move reports: the start plus the displacement,
\* clamped between the minimum sizes
NewPercentage(startPercentage, deltaPercentage) ==
  Max(minimumPaneSizePercentage,
      Min(100 - minimumPaneSizePercentage, startPercentage + deltaPercentage))

SplitPercentageUpdate(path, newPercentage) ==
  Update(path, PatchSpec([splitPercentage |-> [set |-> newPercentage]]))

\* MosaicNodeRenderer's handlers; capturedRoot is getRoot() of the action
\* object the handler closed over
\* a handler that reads the tree the Mosaic holds now
handleSplitChange_ReadsCurrentRoot(capturedRoot, path, newPercentage) ==
  IF root = Null THEN Emits(<<>>)
  ELSE mosaicActions_updateTree(root,
                                <<SplitPercentageUpdate(path, newPercentage)>>, TRUE)

handleSplitChange(capturedRoot, path, newPercentage) ==
  IF capturedRoot = Null THEN Emits(<<>>)
  ELSE mosaicActions_updateTree(capturedRoot,
                                <<SplitPercentageUpdate(path, newPercentage)>>, TRUE)

handleSplitRelease(capturedRoot, path, newPercentage) ==
  IF capturedRoot = Null THEN Emits(<<>>)
  ELSE mosaicActions_updateTree(capturedRoot,
                                <<SplitPercentageUpdate(path, newPercentage)>>, FALSE)

\* the node createNode resolves to
NewNode == Leaf("x")

\* MosaicWindow's split after createNode has resolved
MosaicWindow_split(capturedRoot, path, newNode) ==
  IF capturedRoot = Null THEN Emits(<<>>)
  ELSE LET currentNodeAtPath == getNodeAtPath(capturedRoot, path)
       IN  IF currentNodeAtPath = Null THEN Emits(<<>>)
           ELSE mosaicActions_replaceWith(
                  capturedRoot, path,
                  MosaicParent("row", currentNodeAtPath, newNode, 50))

\* the trees a Mosaic starts with
InitialValues == {Null} \cup TreesOver(<<"a">>) \cup TreesOver(<<"a", "b">>)

\* the paths the host and the windows call the actions with
ComponentPaths == {<<>>, <<"first">>, <<"second">>}

\* the percentages an expand is called with
ComponentPercentages == {Omitted, Given(100)}

\* the batches the host calls the updateTree action with
ComponentBatches ==
  {<<Update(<<>>, PatchSpec([direction |-> [set |-> "column"]]))>>}

\* the displacements of the pointer, in percent of the Split's box
MoveDeltas == {0 - 50, 10}

Pointers == {"mouse", "touch"}

InitMosaic ==
  /\ root \in InitialValues
  /\ sourcePath = <<>>
  /\ destinationPath = <<>>
  /\ position = "LEFT"
  /\ updates = <<>>
  /\ threw = FALSE
  /\ result = Null
  /\ pc = "idle"
  /\ call = NoCall
  /\ NoComponent

\* the callbacks are emitted and the Mosaic stores the last onChange value
Act(outcome, record) ==
  /\ events' = events \o outcome.emitted
  /\ root' = ValueAfter(root, outcome.emitted)
  /\ threw' = outcome.threw
  /\ call' = record
  /\ UNCHANGED <<sourcePath, destinationPath, position, updates, result, pc, monitor>>

ExpandAction ==
  /\ Len(events) < MaxEvents
  /\ \E path \in ComponentPaths, percentage \in ComponentPercentages :
       Act(mosaicActions_expand(root, path, percentage),
           [op |-> "expand", path |-> path, before |-> root])
  /\ UNCHANGED <<resize, pending>>

RemoveAction ==
  /\ Len(events) < MaxEvents
  /\ \E path \in ComponentPaths :
       Act(mosaicActions_remove(root, path),
           [op |-> "remove", path |-> path, before |-> root])
  /\ UNCHANGED <<resize, pending>>

HideAction ==
  /\ Len(events) < MaxEvents
  /\ \E path \in ComponentPaths :
       Act(mosaicActions_hide(root, path),
           [op |-> "hide", path |-> path, before |-> root])
  /\ UNCHANGED <<resize, pending>>

ReplaceWithAction ==
  /\ Len(events) < MaxEvents
  /\ \E path \in ComponentPaths :
       Act(mosaicActions_replaceWith(root, path, NewNode),
           [op |-> "replaceWith", path |-> path, before |-> root])
  /\ UNCHANGED <<resize, pending>>

UpdateTreeAction ==
  /\ Len(events) < MaxEvents
  /\ \E us \in ComponentBatches, suppressOnRelease \in BOOLEAN :
       Act(mosaicActions_updateTree(root, us, suppressOnRelease),
           [op |-> "updateTree", suppressOnRelease |-> suppressOnRelease,
            before |-> root])
  /\ UNCHANGED <<resize, pending>>

\* Split handleMouseDown / handleTouchStart on the Split rendered at a path:
\* the listeners close over the action object of this render
PointerDown ==
  /\ resize = NoResize
  /\ root # Null
  /\ \E path \in ComponentPaths, pointer \in Pointers :
       LET node == getNodeAtPath(root, path)
       IN  /\ isParent(node)
           /\ LET percentage == IF Has(node, "splitPercentage")
                                THEN node.splitPercentage ELSE 50
              IN  resize' = [state |-> "dragging", pointer |-> pointer, path |-> path,
                             capturedRoot |-> root,
                             startPercentage |-> percentage,
                             latestPercentage |-> percentage]
           /\ call' = [op |-> "down", path |-> path, before |-> root]
  /\ UNCHANGED <<root, events, threw, pending, monitor>>
  /\ UNCHANGED <<sourcePath, destinationPath, position, updates, result, pc>>

\* Split handleMouseMove / handleTouchMove: onChange(newPercentage)
PointerMove ==
  /\ resize.state = "dragging"
  /\ Len(events) < MaxEvents
  /\ \E deltaPercentage \in MoveDeltas :
       LET newPercentage == NewPercentage(resize.startPercentage, deltaPercentage)
       IN  /\ resize' = [resize EXCEPT !.latestPercentage = newPercentage]
           /\ Act(handleSplitChange(resize.capturedRoot, resize.path, newPercentage),
                  [op |-> "move", path |-> resize.path, percentage |-> newPercentage,
                   capturedRoot |-> resize.capturedRoot, before |-> root])
  /\ UNCHANGED pending

\* Split handleMouseUp / handleTouchEnd: onRelease(latestPercentage)
PointerUp ==
  /\ resize.state = "dragging"
  /\ Len(events) < MaxEvents
  /\ resize' = NoResize
  /\ Act(handleSplitRelease(resize.capturedRoot, resize.path, resize.latestPercentage),
         [op |-> "up", path |-> resize.path, percentage |-> resize.latestPercentage,
          capturedRoot |-> resize.capturedRoot, before |-> root])
  /\ UNCHANGED pending

\* MosaicWindow split up to the await: the window at a path calls createNode
WindowSplit ==
  /\ pending = NoPending
  /\ root # Null
  /\ \E path \in ComponentPaths :
       /\ getNodeAtPath(root, path).kind = "leaf"
       /\ pending' = [state |-> "awaiting", path |-> path, capturedRoot |-> root]
       /\ call' = [op |-> "split", path |-> path, before |-> root]
  /\ UNCHANGED <<root, events, threw, resize, monitor>>
  /\ UNCHANGED <<sourcePath, destinationPath, position, updates, result, pc>>

\* MosaicWindow split after the await: createNode has resolved
CreateNodeResolves ==
  /\ pending.state = "awaiting"
  /\ Len(events) < MaxEvents
  /\ pending' = NoPending
  /\ Act(MosaicWindow_split(pending.capturedRoot, pending.path, NewNode),
         [op |-> "resolve", path |-> pending.path,
          capturedRoot |-> pending.capturedRoot, before |-> root])
  /\ UNCHANGED resize

NextMosaic ==
  \/ ExpandAction
  \/ RemoveAction
  \/ HideAction
  \/ ReplaceWithAction
  \/ UpdateTreeAction
  \/ PointerDown
  \/ PointerMove
  \/ PointerUp
  \/ WindowSplit
  \/ CreateNodeResolves

SpecMosaic == InitMosaic /\ [][NextMosaic]_vars

\* the last thing that happened came from a handler that had captured its
\* action object earlier: a move or the release of a resize drag, or a window
\* split whose createNode has resolved
FromCapturedActions == call.op \in {"move", "up", "resolve"}

\* the captured tree with only the change of the handler made to it
CapturedPlusOwnChange ==
  LET captured == call.capturedRoot
      node == getNodeAtPath(captured, call.path)
  IN  IF call.op = "resolve"
      THEN ReplaceAt(captured, call.path, MosaicParent("row", node, NewNode, 50))
      ELSE ReplaceAt(captured, call.path,
                     [k \in DOMAIN node \cup {"splitPercentage"} |->
                        IF k = "splitPercentage" THEN call.percentage ELSE node[k]])

\* C23: the engine does not merge.  The tree emitted by a handler that acts
\* on an action object captured earlier (a resize drag, a window split that
\* awaited createNode) is the captured tree plus only the handler's own
\* change, whatever was changed in between: the change in between is lost.
C23_StaleActionOverwrites ==
  FromCapturedActions
  => /\ root = CapturedPlusOwnChange
     /\ events[Len(events)].tree = CapturedPlusOwnChange

C23_Witness ==
  /\ call.op = "move"
  /\ call.before # call.capturedRoot
  /\ "x" \in Range(getLeaves(call.before))
  /\ "x" \notin Range(getLeaves(root))
  /\ root = CapturedPlusOwnChange
  /\ root # call.capturedRoot

\* C24: every percentage a Split reports through onChange (a move) and
\* through onRelease (the end of the drag), and so every splitPercentage a
\* resize writes into the tree, lies between the minimum pane size and 100
\* minus the minimum pane size.
C24_ResizeKeepsMinimumPaneSize ==
  call.op \in {"move", "up"}
  => /\ call.percentage >= minimumPaneSizePercentage
     /\ call.percentage <= 100 - minimumPaneSizePercentage
     /\ getNodeAtPath(root, call.path).splitPercentage >= minimumPaneSizePercentage
     /\ getNodeAtPath(root, call.path).splitPercentage <= 100 - minimumPaneSizePercentage

(***************************************************************************)
(* Window-drag specification: a window is dragged by its title bar.  The   *)
(* drag monitor says whether it is being dragged, useDragSource's effect   *)
(* turns the changes of that into onDragStart and onDragEnd, and a drop on *)
(* a MosaicDropTarget runs the drop handler before the drag ends.          *)
(***************************************************************************)
onDragStart == [name |-> "onDragStart"]

onDragEnd(type) == [name |-> "onDragEnd", type |-> type]

\* the effect of useDragSource, run after isDragging has changed
useDragSource_effect(isDragging, prevIsDragging) ==
  IF isDragging /\ ~prevIsDragging THEN <<onDragStart>>
  ELSE IF ~isDragging /\ prevIsDragging THEN <<onDragEnd("drop")>>
  ELSE <<>>

\* the drop handler of MosaicDropTarget
MosaicDropTarget_drop(currentValue, itemPath, path, dropPosition) ==
  IF currentValue = Null THEN Emits(<<>>)
  ELSE LET batch == createDragToUpdates(currentValue, itemPath, path, dropPosition)
       IN  IF batch.threw THEN Throws
           ELSE mosaicActions_updateTree(currentValue, batch.value, FALSE)

\* the paths of the windows of a tree
WindowPaths(tree) == {path \in PathsIn(tree) \cap MosaicPath : getNodeAtPath(tree, path).kind = "leaf"}

InitWindowDrag ==
  /\ root \in TreesUpTo(MaxLeaves)
  /\ sourcePath = <<>>
  /\ destinationPath = <<>>
  /\ position = "LEFT"
  /\ updates = <<>>
  /\ threw = FALSE
  /\ result = Null
  /\ pc = "idle"
  /\ call = NoCall
  /\ NoComponent

\* the monitor reports the drag of the window at a path; the effect runs
BeginDrag ==
  /\ ~monitor.isDragging
  /\ Len(events) < MaxEvents
  /\ \E path \in WindowPaths(root) :
       /\ sourcePath' = path
       /\ call' = [op |-> "begin", path |-> path]
  /\ monitor' = [isDragging |-> TRUE, prevIsDragging |-> TRUE]
  /\ events' = events \o useDragSource_effect(TRUE, monitor.prevIsDragging)
  /\ UNCHANGED <<root, destinationPath, position, updates, threw, result, pc,
                 resize, pending>>

\* the window is dropped on the target at a path and position: the drop
\* handler runs, then the drag ends and the effect runs
DropOnTarget ==
  /\ monitor.isDragging
  /\ \E path \in WindowPaths(root), dropPosition \in MosaicDropTargetPosition :
       LET outcome == MosaicDropTarget_drop(root, sourcePath, path, dropPosition)
       IN  /\ destinationPath' = path
           /\ position' = dropPosition
           /\ threw' = outcome.threw
           /\ root' = ValueAfter(root, outcome.emitted)
           /\ events' = events \o outcome.emitted
                          \o useDragSource_effect(FALSE, monitor.prevIsDragging)
           /\ call' = [op |-> "drop", path |-> path]
  /\ monitor' = [isDragging |-> FALSE, prevIsDragging |-> FALSE]
  /\ UNCHANGED <<sourcePath, updates, result, pc, resize, pending>>

\* the drag ends outside every target: no drop handler runs, the effect runs
EndWithoutDrop ==
  /\ monitor.isDragging
  /\ monitor' = [isDragging |-> FALSE, prevIsDragging |-> FALSE]
  /\ events' = events \o useDragSource_effect(FALSE, monitor.prevIsDragging)
  /\ call' = [op |-> "reset", path |-> sourcePath]
  /\ UNCHANGED <<root, sourcePath, destinationPath, position, updates, threw,
                 result, pc, resize, pending>>

NextWindowDrag == BeginDrag \/ DropOnTarget \/ EndWithoutDrop

SpecWindowDrag == InitWindowDrag /\ [][NextWindowDrag]_vars

\* C25: onDragStart is called once when dragging begins and onDragEnd once
\* when it ends, with type 'drop' when the drag ended by a drop on a target
\* and type 'reset' when it ended without a drop.
C25_DragEndReportsDropOrReset ==
  /\ call.op = "begin"
     => /\ events[Len(events)] = onDragStart
        /\ Len(events) >= 2 => events[Len(events) - 1] # onDragStart
  /\ call.op \in {"drop", "reset"}
     => /\ events[Len(events)] = onDragEnd(call.op)
        /\ events[Len(events) - 1].name # "onDragEnd"

\* C26 as stated: removing the node at Q + [b] shifts every path through the
\* collapsed parent one level up (the node at Q + X in the result is the node
\* at Q + [other(b)] + X in the original tree), and the node at every path R
\* that does not have Q as a prefix is the same before and after.
C26_RemoveShiftsPathsAndKeepsAllOthers ==
  (Removed /\ ~threw)
  => LET Q == DropLast(call.path)
         b == call.path[Len(call.path)]
     IN  /\ \A X \in MosaicPath :
              getNodeAtPath(result, Q \o X)
                = getNodeAtPath(root, Q \o <<OtherSide(b)>> \o X)
         /\ \A R \in MosaicPath :
              ~IsPrefix(Q, R) => getNodeAtPath(result, R) = getNodeAtPath(root, R)

\* C26 amended: the same shift; the node at every path R that neither has Q
\* as a prefix nor is a prefix of Q is the same before and after, and a Split
\* at a proper prefix of Q keeps its direction and splitPercentage while its
\* subtree towards Q changes.
C26_RemoveShiftsPathsAndKeepsPathsApart ==
  (Removed /\ ~threw)
  => LET Q == DropLast(call.path)
         b == call.path[Len(call.path)]
     IN  /\ \A X \in MosaicPath :
              getNodeAtPath(result, Q \o X)
                = getNodeAtPath(root, Q \o <<OtherSide(b)>> \o X)
         /\ \A R \in MosaicPath :
              Apart(Q, R) => getNodeAtPath(result, R) = getNodeAtPath(root, R)
         /\ \A R \in MosaicPath :
              IsStrictPrefix(R, Q)
              => /\ isParent(getNodeAtPath(result, R))
                 /\ getNodeAtPath(result, R).direction = getNodeAtPath(root, R).direction
                 /\ getNodeAtPath(result, R).splitPercentage
                      = getNodeAtPath(root, R).splitPercentage
                 /\ getNodeAtPath(result, R) # getNodeAtPath(root, R)

C26_Witness ==
  /\ Removed
  /\ ~threw
  /\ Len(call.path) = 2
  /\ isParent(getNodeAtPath(root, DropLast(call.path) \o <<OtherSide(call.path[2])>>))
  /\ getNodeAtPath(result, DropLast(call.path) \o <<"second">>).kind = "leaf"
  /\ getNodeAtPath(result, <<>>) # getNodeAtPath(root, <<>>)
  /\ getNodeAtPath(result, <<OtherSide(call.path[1])>>)
       = getNodeAtPath(root, <<OtherSide(call.path[1])>>)

\* the spec is a partial patch of one child only
PatchesOnly(spec, branch) == DOMAIN spec = {"kind", branch} /\ spec.kind = "patch"

\* C27: a partial patch recurses into first / second without consuming a path
\* segment: for a Split at path P and a spec S, the update (P, {first: S})
\* gives the same tree as (P + [first], S), and likewise for second.
C27_ChildPatchIsUpdateOneLevelDown ==
  (Applied /\ isParent(getNodeAtPath(root, updates[1].path)))
  => \A branch \in MosaicBranch :
       PatchesOnly(updates[1].spec, branch)
       => result = updateTree(root, <<Update(updates[1].path \o <<branch>>,
                                             updates[1].spec[branch])>>)

\* the last thing that happened was a remove action on a Mosaic holding a tree
RemovedFromTree == call.op = "remove" /\ call.before # Null

\* the remove update of the call can be constructed: the path is not empty
\* and its parent is a Split of the tree the Mosaic held
RemoveConstructible ==
  /\ Len(call.path) > 0
  /\ isParent(getNodeAtPath(call.before, DropLast(call.path)))

\* the tree the Mosaic held with the parent of the removed node replaced by
\* the removed node's sibling
CollapsedTree ==
  LET parentPath == DropLast(call.path)
      sibling == getNodeAtPath(call.before,
                               parentPath \o <<OtherSide(call.path[Len(call.path)])>>)
  IN  ReplaceAt(call.before, parentPath, sibling)

\* what a remove action on the tree the Mosaic held leaves behind: null when
\* the update cannot be constructed and the collapsed tree when it can,
\* reported through onChange and then onRelease and stored
RemoveReported ==
  LET n == Len(events)
      reported == IF RemoveConstructible THEN CollapsedTree ELSE Null
  IN  /\ ~threw
      /\ n >= 2
      /\ events[n - 1] = onChange(reported)
      /\ events[n] = onRelease(reported)
      /\ root = reported

\* C28: a remove action whose update cannot be constructed (empty path, or a
\* parent that is not a Split) sets the tree to null and reports null through
\* onChange and then onRelease; a remove whose update can be constructed
\* reports the collapsed tree through onChange and then onRelease.
C28_RemoveAlwaysReports == call.op = "remove" => RemoveReported

\* C28, for a Mosaic that holds a tree: the remove action reports null
\* through onChange and then onRelease when its update cannot be constructed,
\* and the collapsed tree through both when it can.
C28_RemoveReportsCollapsedTreeOrNull == RemovedFromTree => RemoveReported

C28_Witness ==
  /\ RemovedFromTree
  /\ ~RemoveConstructible
  /\ Len(call.path) = 1
  /\ call.before.kind = "leaf"
  /\ root = Null
  /\ events = <<onChange(Null), onRelease(Null)>>

\* the callbacks the last action emitted were onChange and then onRelease,
\* both with the tree the Mosaic now holds
EmittedChangeThenRelease ==
  LET n == Len(events)
  IN  /\ n >= 2
      /\ events[n - 1] = onChange(root)
      /\ events[n] = onRelease(root)

\* the last callback was an onChange with the tree the Mosaic now holds
EmittedChangeLast == Len(events) >= 1 /\ events[Len(events)] = onChange(root)

\* every onRelease(t) comes directly after onChange(t) with the same tree
ReleaseDirectlyAfterChange ==
  \A i \in 1..Len(events) :
    events[i].name = "onRelease"
    => i > 1 /\ events[i - 1] = onChange(events[i].tree)

\* each move of a resize drag emits onChange only; the end of the drag emits
\* the one onRelease, after them, and the drag is over
ResizeDragEmits ==
  /\ call.op = "move" => EmittedChangeLast
  /\ call.op = "up" => EmittedChangeThenRelease /\ resize = NoResize

\* the last thing that happened was the named action, called by the host
Called(ops) == call.op \in ops

\* the action acted: the Mosaic held a tree and no exception left the action
Acted == call.before # Null /\ ~threw

C30_EmptyLayoutIsAbsorbing ==
  [][root = Null => root' = Null /\ events' = events]_vars

====
